---- MODULE Spec2Model ----
(***************************************************************************)
(* The reconciliation pass of the secret generator controller              *)
(* (pkg/controller/secret): Reconcile and the String generator.            *)
(*                                                                         *)
(* Representation.  A Go map is a record [nil, m]: nil tells a nil map     *)
(* from an empty one (reflect.DeepEqual tells them apart), m is the        *)
(* function from the keys present to their values.  A Go string that the   *)
(* code splits or parses is a tuple of one-character strings; a byte       *)
(* slice is a tuple of byte symbols.                                       *)
(***************************************************************************)
EXTENDS Integers, Sequences, FiniteSets, TLC

VARIABLES store,   \* the API server: name -> the persisted Secret
          pass,    \* worker -> the locals of its Reconcile call
          cfg,     \* the process-wide (viper) configuration
          started, \* number of Reconcile calls made so far
          enc      \* the last GenerateRandomString call made on its own

vars == <<store, pass, cfg, started, enc>>

----------------------------------------------------------------------------
(* Bounds of the model *)

MaxPasses == 3
NumSeeds == 2
MaxLen == 10

----------------------------------------------------------------------------
(* Constants of the program *)

ByteSuffix == "b"

RequeueSeconds == 30

AnnotationSecretType == "type"
AnnotationSecretAutoGenerate == "autogenerate"
AnnotationSecretRegenerate == "regenerate"
AnnotationSecretSecure == "secure"
AnnotationSecretLength == "length"
AnnotationSecretEncoding == "encoding"
AnnotationSecretTemplate == "template"
AnnotationSecretAutoGeneratedAt == "autogenerate-generated-at"

TypeString == "string"
TypeSSHKeypair == "ssh-keypair"
TypeBasicAuth == "basic-auth"

YES == <<"y", "e", "s">>

\* the placeholder of a template, one symbol of the template text
templateKey == "${SECRET}"

----------------------------------------------------------------------------
(* Go values *)

NilMap == [nil |-> TRUE, m |-> <<>>]

EmptyMap == [nil |-> FALSE, m |-> <<>>]

Has(gm, k) == k \in DOMAIN gm.m

\* gm[k] = v; the map is allocated wherever the code assigns
MapSet(gm, k, v) ==
  [nil |-> FALSE,
   m |-> [x \in (DOMAIN gm.m) \cup {k} |-> IF x = k THEN v ELSE gm.m[x]]]

\* delete(gm, k)
MapDelete(gm, k) ==
  [nil |-> gm.nil, m |-> [x \in (DOMAIN gm.m) \ {k} |-> gm.m[x]]]

\* mutant: every value counts as empty
LenAt_AlwaysZero(gm, k) == 0

\* len(gm[k]) for a map of byte slices: a missing key reads as the nil slice
LenAt(gm, k) == IF Has(gm, k) THEN Len(gm.m[k]) ELSE 0

\* reflect.DeepEqual on two maps: a nil map is not equal to an empty one
DeepEqual(a, b) == a.nil = b.nil /\ a.m = b.m

DeepCopy(r) == [ann |-> r.ann, data |-> r.data]

ZeroResult == [Requeue |-> FALSE, RequeueAfter |-> 0]

----------------------------------------------------------------------------
(* strings.Split(s, ","), strconv.Itoa, strconv.Atoi *)

RECURSIVE SplitFrom(_, _, _, _)
SplitFrom(s, i, cur, acc) ==
  IF i > Len(s) THEN Append(acc, cur)
  ELSE IF s[i] = "," THEN SplitFrom(s, i + 1, <<>>, Append(acc, cur))
  ELSE SplitFrom(s, i + 1, Append(cur, s[i]), acc)

Split(s) == SplitFrom(s, 1, <<>>, <<>>)

Digits == <<"0", "1", "2", "3", "4", "5", "6", "7", "8", "9">>

IsDigit(c) == \E d \in 1..10 : Digits[d] = c

DigitVal(c) == (CHOOSE d \in 1..10 : Digits[d] = c) - 1

RECURSIVE Itoa(_)
Itoa(n) == IF n < 10 THEN <<Digits[n + 1]>>
           ELSE Append(Itoa(n \div 10), Digits[(n % 10) + 1])

RECURSIVE AtoiFrom(_, _, _)
AtoiFrom(s, i, acc) ==
  IF i > Len(s) THEN acc
  ELSE AtoiFrom(s, i + 1, acc * 10 + DigitVal(s[i]))

\* [ok, val]: fails on the empty string and on any non-digit
Atoi(s) ==
  IF Len(s) = 0 \/ \E i \in 1..Len(s) : ~IsDigit(s[i])
  THEN [ok |-> FALSE, val |-> 0]
  ELSE [ok |-> TRUE, val |-> AtoiFrom(s, 1, 0)]

----------------------------------------------------------------------------
(* Annotation accessors *)

Type_Validate(t) == t \in {TypeString, TypeSSHKeypair, TypeBasicAuth}

GetLengthFromAnnotation(fallback, annotations) ==
  IF Has(annotations, AnnotationSecretLength)
  THEN annotations.m[AnnotationSecretLength]
  ELSE Itoa(fallback)

getEncodingFromAnnotation(fallback, annotations) ==
  IF Has(annotations, AnnotationSecretEncoding)
  THEN annotations.m[AnnotationSecretEncoding]
  ELSE fallback

getTemplateFromAnnotation(fallback, annotations) ==
  IF Has(annotations, AnnotationSecretTemplate)
  THEN annotations.m[AnnotationSecretTemplate]
  ELSE fallback

\* the length text, with an optional trailing byte-length marker
ParseByteLength(fallback, length) ==
  LET n == Len(length)
      isByteLength == n > 0 /\ length[n] = ByteSuffix
      digits == IF isByteLength THEN SubSeq(length, 1, n - 1) ELSE length
      parsed == Atoi(digits)
  IN IF parsed.ok
     THEN [length |-> parsed.val, isByteLength |-> isByteLength, err |-> ""]
     ELSE [length |-> 0, isByteLength |-> FALSE, err |-> "ParseError"]

----------------------------------------------------------------------------
(* Random value encoder.  The n random bytes of one rand.Read are n copies *)
(* of one symbol, chosen by the seed; seed 0 is a failing rand.Read.       *)

RandChars == <<"r1", "r2", "r3", "r4">>

Seeds == 1..NumSeeds

Repeat(c, n) == [i \in 1..n |-> c]

\* base64.StdEncoding / URLEncoding: 4 characters per 3 bytes, "=" padded
Base64Encode(b) ==
  LET n == Len(b)
      full == 4 * ((n + 2) \div 3)
      pad == (3 - (n % 3)) % 3
  IN IF n = 0 THEN <<>> ELSE Repeat(b[1], full - pad) \o Repeat("=", pad)

\* base32.StdEncoding: 8 characters per 5 bytes, "=" padded
Base32Encode(b) ==
  LET n == Len(b)
      full == 8 * ((n + 4) \div 5)
      rem == n % 5
      pad == IF rem = 0 THEN 0 ELSE IF rem = 1 THEN 6 ELSE IF rem = 2 THEN 4
             ELSE IF rem = 3 THEN 3 ELSE 1
  IN IF n = 0 THEN <<>> ELSE Repeat(b[1], full - pad) \o Repeat("=", pad)

\* hex.EncodeToString: 2 characters per byte
HexEncode(b) == IF Len(b) = 0 THEN <<>> ELSE Repeat(b[1], 2 * Len(b))

\* mutant: the byte-length flag is ignored and the text always trimmed
GenerateRandomString_AlwaysTrim(length, encoding, lenBytes, seed) ==
  IF seed = 0 THEN [val |-> <<>>, err |-> "EntropyError"]
  ELSE
    LET b == Repeat(RandChars[seed], length)
        encodedString ==
          IF encoding = "base64url" THEN Base64Encode(b)
          ELSE IF encoding = "base32" THEN Base32Encode(b)
          ELSE IF encoding = "hex" THEN HexEncode(b)
          ELSE Base64Encode(b)
    IN IF encoding = "raw" THEN [val |-> b, err |-> ""]
       ELSE [val |-> SubSeq(encodedString, 1, length), err |-> ""]

GenerateRandomString(length, encoding, lenBytes, seed) ==
  IF seed = 0 THEN [val |-> <<>>, err |-> "EntropyError"]
  ELSE
    LET b == Repeat(RandChars[seed], length)
        encodedString ==
          IF encoding = "base64url" THEN Base64Encode(b)
          ELSE IF encoding = "base32" THEN Base32Encode(b)
          ELSE IF encoding = "hex" THEN HexEncode(b)
          ELSE Base64Encode(b)
    IN IF encoding = "raw" THEN [val |-> b, err |-> ""]
       ELSE IF lenBytes THEN [val |-> encodedString, err |-> ""]
       ELSE IF length > Len(encodedString)
            THEN [val |-> <<>>, err |-> "panic: slice bounds out of range"]
       ELSE [val |-> SubSeq(encodedString, 1, length), err |-> ""]

\* bytes.ReplaceAll(template, templateKey, value)
RECURSIVE ReplaceAll(_, _, _)
ReplaceAll(template, old, new) ==
  IF template = <<>> THEN <<>>
  ELSE (IF Head(template) = old THEN new ELSE <<Head(template)>>)
       \o ReplaceAll(Tail(template), old, new)

----------------------------------------------------------------------------
(* String generator *)

RECURSIVE UniqueFrom(_, _, _)
UniqueFrom(a, i, set) ==
  IF i > Len(a) THEN TRUE
  ELSE IF a[i] \in set THEN FALSE
  ELSE UniqueFrom(a, i + 1, set \cup {a[i]})

\* mutant: the set of seen elements is never filled
ensureUniqueness_NeverFails(a) == TRUE

\* TRUE when the elements are unique (the code returns a nil error)
ensureUniqueness(a) == UniqueFrom(a, 1, {})

\* mutant: the fall-through return is true
contains_TrueOnMiss(s, e) == TRUE

contains(s, e) == \E i \in 1..Len(s) : s[i] = e

\* conf = [instance, key, length, isByteLength]; returns [inst, err]
generateRandomSecret(conf, seed) ==
  LET encoding == getEncodingFromAnnotation(cfg.secretEncoding, conf.instance.ann)
      gen == GenerateRandomString(conf.length, encoding, conf.isByteLength, seed)
      template == getTemplateFromAnnotation(<<templateKey>>, conf.instance.ann)
      value == ReplaceAll(template, templateKey, gen.val)
  IN IF gen.err # "" THEN [inst |-> conf.instance, err |-> gen.err]
     ELSE [inst |-> [conf.instance EXCEPT !.data = MapSet(@, conf.key, value)],
           err |-> ""]

\* mutant: a field that is present counts as generated, even when empty
SkipKey_PresentOnly(instance, regenKeys, key) ==
  Has(instance.data, key) /\ ~contains(regenKeys, key)

\* mutant: the negation of contains is dropped
SkipKey_DroppedNot(instance, regenKeys, key) ==
  LenAt(instance.data, key) # 0 /\ contains(regenKeys, key)

\* the field is skipped: it has a value and is not queued for regeneration
SkipKey(instance, regenKeys, key) ==
  LenAt(instance.data, key) # 0 /\ ~contains(regenKeys, key)

\* the loop over genKeys from index i on; rnd[i] is the seed of the i-th draw
RECURSIVE GenLoop(_, _, _, _, _, _, _, _)
GenLoop(instance, genKeys, regenKeys, parsed, rnd, i, generatedCount, written) ==
  IF i > Len(genKeys)
  THEN [inst |-> instance, generatedCount |-> generatedCount,
        written |-> written, err |-> ""]
  ELSE IF SkipKey(instance, regenKeys, genKeys[i])
  THEN GenLoop(instance, genKeys, regenKeys, parsed, rnd, i + 1,
               generatedCount, written)
  ELSE LET g == generateRandomSecret(
                  [instance |-> instance, key |-> genKeys[i],
                   length |-> parsed.length,
                   isByteLength |-> parsed.isByteLength], rnd[i])
       IN IF g.err # ""
          THEN [inst |-> g.inst, generatedCount |-> generatedCount + 1,
                written |-> written, err |-> g.err]
          ELSE GenLoop(g.inst, genKeys, regenKeys, parsed, rnd, i + 1,
                       generatedCount + 1, written \cup {genKeys[i]})

\* mutant: the secure marker is not consulted
InsecureBranch_IgnoresMarker(instance) == cfg.regenerateInsecure

\* mutant: the test of the secure marker is inverted
InsecureBranch_MarkerInverted(instance) ==
  Has(instance.ann, AnnotationSecretSecure) /\ cfg.regenerateInsecure

\* the insecure-policy branch: no secure marker and the policy is on
InsecureBranch(instance) ==
  ~Has(instance.ann, AnnotationSecretSecure) /\ cfg.regenerateInsecure

\* the regenerate-request branch
RegenerateBranch(instance) ==
  ~InsecureBranch(instance) /\ Has(instance.ann, AnnotationSecretRegenerate)

\* mutant: any regenerate request regenerates every key
RegenKeys_AlwaysAll(instance, genKeys) ==
  IF InsecureBranch(instance) \/ RegenerateBranch(instance)
  THEN genKeys
  ELSE <<>>

\* mutant: "yes" is read as a list of names like any other value
RegenKeys_YesAsName(instance, genKeys) ==
  IF InsecureBranch(instance) THEN genKeys
  ELSE IF RegenerateBranch(instance)
  THEN Split(instance.ann.m[AnnotationSecretRegenerate])
  ELSE <<>>

RegenKeys(instance, genKeys) ==
  IF InsecureBranch(instance) THEN genKeys
  ELSE IF RegenerateBranch(instance)
  THEN (IF instance.ann.m[AnnotationSecretRegenerate] = YES
        THEN genKeys
        ELSE Split(instance.ann.m[AnnotationSecretRegenerate]))
  ELSE <<>>

\* mutant: one generated key is enough
AllGenerated_AnyGenerated(generatedCount, genKeys) == generatedCount > 0

\* all keys have been generated by this pass
AllGenerated(generatedCount, genKeys) == generatedCount = Len(genKeys)

\* mutant: the failure is returned with the zero result
FailureResult_Zero == [Requeue |-> FALSE, RequeueAfter |-> 0]

\* line 348: the result returned with a generation error
FailureResult == [Requeue |-> FALSE, RequeueAfter |-> RequeueSeconds]

\* returns [inst, res, err, generatedCount, written]
regenerateKeysWhereRequired(instance, genKeys, rnd) ==
  LET regenKeys == RegenKeys(instance, genKeys)
      inst1 == IF RegenerateBranch(instance)
               THEN [instance EXCEPT
                       !.ann = MapDelete(@, AnnotationSecretRegenerate)]
               ELSE instance
      length == GetLengthFromAnnotation(cfg.secretLength, inst1.ann)
      parsed == ParseByteLength(cfg.secretLength, length)
  IN IF parsed.err # ""
     THEN [inst |-> inst1, res |-> ZeroResult, err |-> parsed.err,
           generatedCount |-> 0, written |-> {}]
     ELSE
       LET loop == GenLoop(inst1, genKeys, regenKeys, parsed, rnd, 1, 0, {})
       IN IF loop.err # ""
          THEN [inst |-> loop.inst,
                res |-> FailureResult,
                err |-> loop.err,
                generatedCount |-> loop.generatedCount,
                written |-> loop.written]
          ELSE [inst |-> IF AllGenerated(loop.generatedCount, genKeys)
                         THEN [loop.inst EXCEPT
                                 !.ann = MapSet(@, AnnotationSecretSecure, "yes")]
                         ELSE loop.inst,
                res |-> ZeroResult, err |-> "",
                generatedCount |-> loop.generatedCount,
                written |-> loop.written]

StringGenerator_generateData(instance, rnd) ==
  LET toGenerate == IF Has(instance.ann, AnnotationSecretAutoGenerate)
                    THEN instance.ann.m[AnnotationSecretAutoGenerate]
                    ELSE <<>>
      genKeys == Split(toGenerate)
  IN IF ~ensureUniqueness(genKeys)
     THEN [inst |-> instance, res |-> ZeroResult, err |-> "DuplicateElement",
           generatedCount |-> 0, written |-> {}]
     ELSE regenerateKeysWhereRequired(instance, genKeys, rnd)

----------------------------------------------------------------------------
(* The sibling generators (SSHKeypair, BasicAuth): the same protocol with  *)
(* another payload, written to one field.                                  *)

PayloadField == <<"k">>

SiblingGenerator_generateData(instance, rnd) ==
  LET regenerate == Has(instance.ann, AnnotationSecretRegenerate)
      inst1 == IF regenerate
               THEN [instance EXCEPT
                       !.ann = MapDelete(@, AnnotationSecretRegenerate)]
               ELSE instance
  IN IF LenAt(instance.data, PayloadField) # 0 /\ ~regenerate
     THEN [inst |-> instance, res |-> ZeroResult, err |-> "",
           generatedCount |-> 0, written |-> {}]
     ELSE IF rnd[1] = 0
     THEN [inst |-> inst1,
           res |-> [Requeue |-> FALSE, RequeueAfter |-> RequeueSeconds],
           err |-> "EntropyError", generatedCount |-> 0, written |-> {}]
     ELSE [inst |-> [inst1 EXCEPT
                       !.data = MapSet(@, PayloadField, <<RandChars[rnd[1]]>>)],
           res |-> ZeroResult, err |-> "",
           generatedCount |-> 1, written |-> {PayloadField}]

----------------------------------------------------------------------------
(* Reconcile *)

NoObject == [ann |-> NilMap, data |-> NilMap]

\* no GenerateRandomString call has been made on its own
NoCall ==
  [called |-> FALSE, length |-> 0, encoding |-> "", lenBytes |-> FALSE,
   seed |-> 0, val |-> <<>>, err |-> ""]

\* the locals of a Reconcile call that has not started
IdlePass ==
  [pc |-> "idle", name |-> "", fetched |-> FALSE, instance |-> NoObject, desired |-> NoObject,
   sType |-> "", generator |-> "", genIn |-> NoObject, written |-> {},
   generatedCount |-> 0, updateCalls |-> 0, sent |-> NoObject,
   res |-> ZeroResult, err |-> ""]

Workers == DOMAIN pass

Names == DOMAIN store

\* time.Now().Format(time.RFC3339): one tick per Reconcile call
Now == <<"T">> \o Itoa(started)

Returned(p, res, err) == [p EXCEPT !.pc = "returned", !.res = res, !.err = err]

\* desired.Annotations[AnnotationSecretType], "" when the key is missing
TypeOf(obj) ==
  IF Has(obj.ann, AnnotationSecretType)
  THEN obj.ann.m[AnnotationSecretType]
  ELSE ""

\* mutant: the test of the autogenerate annotation is inverted
NotManaged_AutoInverted(obj) ==
  Has(obj.ann, AnnotationSecretAutoGenerate) /\ TypeOf(obj) = ""

\* the early return of type resolution: no type and no autogenerate annotation
NotManaged(obj) ==
  ~Has(obj.ann, AnnotationSecretAutoGenerate) /\ TypeOf(obj) = ""

\* mutant: the data maps are left out of the comparison
Changed_AnnotationsOnly(instance, desired) ==
  ~DeepEqual(instance.ann, desired.ann)

\* the comparison that decides whether the pass persists
Changed(instance, desired) ==
  ~DeepEqual(instance.ann, desired.ann) \/ ~DeepEqual(instance.data, desired.data)

\* lines 95-99: the object is gone; return and don't requeue
NotFoundReturn(p) == Returned(p, ZeroResult, "")

\* mutant: the read error is returned with an explicit requeue
GetErrorReturn_Requeue(p) ==
  Returned(p, [Requeue |-> TRUE, RequeueAfter |-> 0], "GetError")

\* lines 101-102: error reading the object; the raw error is returned
GetErrorReturn(p) == Returned(p, ZeroResult, "GetError")

\* lines 91-105: Get, then the copy
Fetch(w, n, getFails) ==
  /\ pass[w].pc = "idle"
  /\ started < MaxPasses
  /\ started' = started + 1
  /\ pass' = [pass EXCEPT ![w] =
       IF getFails
       THEN GetErrorReturn([IdlePass EXCEPT !.name = n])
       ELSE IF ~store[n].exists
       THEN NotFoundReturn([IdlePass EXCEPT !.name = n])
       ELSE [IdlePass EXCEPT !.pc = "resolving", !.name = n,
                             !.fetched = TRUE,
                             !.instance = store[n].obj,
                             !.desired = DeepCopy(store[n].obj)]]
  /\ UNCHANGED <<store, cfg, enc>>

\* mutant: the default is taken for the dispatch but not written back
DefaultType_NotWritten(desired) == desired

\* line 115: keep backwards compatibility by defaulting to string type
DefaultType(desired) ==
  [desired EXCEPT !.ann = MapSet(@, AnnotationSecretType, TypeString)]

\* lines 122-124: a nil data map is allocated
EnsureData(desired) ==
  IF desired.data.nil THEN [desired EXCEPT !.data = EmptyMap] ELSE desired

\* mutant: the default is written to the annotation but not to sType
ResolvedType_NoDefault(sType) == sType

\* lines 108-117: sType after validation
ResolvedType(sType) == IF Type_Validate(sType) THEN sType ELSE TypeString

\* lines 107-124: the type, its default, the data map
ResolveType(w) ==
  /\ pass[w].pc = "resolving"
  /\ \E p \in {pass[w]} : \E sType \in {TypeOf(p.desired)} :
       pass' = [pass EXCEPT ![w] =
          IF ~Type_Validate(sType) /\ NotManaged(p.desired)
          THEN Returned(p, ZeroResult, "")
          ELSE IF ~Type_Validate(sType)
          THEN [p EXCEPT !.pc = "generating", !.sType = ResolvedType(sType),
                         !.desired = EnsureData(DefaultType(p.desired))]
          ELSE [p EXCEPT !.pc = "generating", !.sType = ResolvedType(sType),
                         !.desired = EnsureData(p.desired)]]
  /\ UNCHANGED <<store, cfg, started, enc>>

\* number of draws a generateData call may make
Draws(obj) ==
  IF Has(obj.ann, AnnotationSecretAutoGenerate)
  THEN Len(Split(obj.ann.m[AnnotationSecretAutoGenerate]))
  ELSE 1

\* lines 126-149: the dispatch and generateData
Generate(w) ==
  /\ pass[w].pc = "generating"
  /\ \E p \in {pass[w]} :
        IF p.sType \notin {TypeSSHKeypair, TypeString, TypeBasicAuth}
        THEN pass' = [pass EXCEPT ![w] =
               Returned(p, [Requeue |-> TRUE, RequeueAfter |-> 0],
                        "SecretTypeNotSpecified")]
        ELSE \E rnd \in [1..Draws(p.desired) -> 0..NumSeeds] :
             \E g \in {IF p.sType = TypeString
                        THEN StringGenerator_generateData(p.desired, rnd)
                        ELSE SiblingGenerator_generateData(p.desired, rnd)} :
               LET q == [p EXCEPT !.generator = p.sType,
                                  !.genIn = p.desired,
                                  !.desired = g.inst,
                                  !.written = g.written,
                                  !.generatedCount = g.generatedCount]
               IN pass' = [pass EXCEPT ![w] =
                    IF g.err # "" THEN Returned(q, g.res, g.err)
                    ELSE [q EXCEPT !.pc = "diffing"]]
  /\ UNCHANGED <<store, cfg, started, enc>>

\* mutant: the resource is written back without the timestamp
Stamp_Omitted(desired) == desired

\* line 155: the generated-at timestamp
Stamp(desired) ==
  [desired EXCEPT !.ann = MapSet(@, AnnotationSecretAutoGeneratedAt, Now)]

\* mutant: every write goes to one and the same object
ObjectKey_Fixed(p) == CHOOSE n \in Names : TRUE

\* line 156: Update writes the object under the name it was fetched by
ObjectKey(p) == p.name

\* lines 151-163: the diff, the timestamp, Update
Persist(w, updateFails) ==
  /\ pass[w].pc = "diffing"
  /\ \E p \in {pass[w]} :
        IF Changed(p.instance, p.desired)
        THEN LET d == Stamp(p.desired)
                 q == [p EXCEPT !.desired = d, !.sent = d,
                                !.updateCalls = @ + 1]
             IN IF updateFails
                THEN /\ pass' = [pass EXCEPT ![w] =
                          Returned(q, [Requeue |-> TRUE, RequeueAfter |-> 0],
                                   "UpdateError")]
                     /\ UNCHANGED store
                ELSE /\ pass' = [pass EXCEPT ![w] = Returned(q, ZeroResult, "")]
                     /\ store' = [store EXCEPT ![ObjectKey(p)] =
                                    [exists |-> TRUE, obj |-> d]]
        ELSE /\ ~updateFails
             /\ pass' = [pass EXCEPT ![w] = Returned(p, ZeroResult, "")]
             /\ UNCHANGED store
  /\ UNCHANGED <<cfg, started, enc>>

\* the framework takes the result; the worker is free for the next request
Finish(w) ==
  /\ pass[w].pc = "returned"
  /\ pass' = [pass EXCEPT ![w] = IdlePass]
  /\ UNCHANGED <<store, cfg, started, enc>>

----------------------------------------------------------------------------
(* Initial states: the Secrets the controller may be handed.  An option is *)
(* the empty set (annotation absent) or a singleton (its value).           *)

Put(gm, k, opt) == IF opt = {} THEN gm ELSE MapSet(gm, k, CHOOSE v \in opt : TRUE)

MkAnn(type, auto, regen, secure, length, encoding, template) ==
  Put(Put(Put(Put(Put(Put(Put(NilMap,
    AnnotationSecretType, type),
    AnnotationSecretAutoGenerate, auto),
    AnnotationSecretRegenerate, regen),
    AnnotationSecretSecure, secure),
    AnnotationSecretLength, length),
    AnnotationSecretEncoding, encoding),
    AnnotationSecretTemplate, template)

KeyX == <<"x">>
KeyY == <<"y">>

TypeOpts == {{}, {""}, {TypeString}, {"foo"}}

AutoOpts == {{}, {<<>>}, {<<"x">>}, {<<"x", ",", "y">>}, {<<"x", ",", "x">>}}

RegenOpts == {{}, {YES}, {<<"y">>}, {<<"x", ",", "z">>}}

SecureOpts == {{}, {"yes"}}

DataOpts ==
  {NilMap,
   MapSet(NilMap, KeyX, <<"v">>),
   MapSet(MapSet(NilMap, KeyX, <<"v">>), KeyY, <<"w">>),
   MapSet(MapSet(NilMap, KeyX, <<>>), KeyY, <<"w">>)}

LengthOpts == {{<<"0">>}, {<<"1">>}, {<<"2", "b">>}, {<<"q">>}}

EncodingOpts == {{}, {"hex"}, {"raw"}, {"base32"}, {"base64url"}}

TemplateOpts == {{}, {<<"p", templateKey>>}, {<<"k">>}, {<<>>}}

\* the decision logic: type, field list, regeneration request, secure marker
CoreObjects ==
  {[ann |-> MkAnn(t, a, r, s, {}, {}, {}), data |-> d] :
     t \in TypeOpts, a \in AutoOpts, r \in RegenOpts, s \in SecureOpts,
     d \in DataOpts}

\* the value production: length, encoding, template
ValueObjects ==
  {[ann |-> MkAnn({TypeString}, {<<"x", ",", "y">>}, {}, {"yes"}, l, e, t),
    data |-> d] :
     l \in LengthOpts, e \in EncodingOpts, t \in TemplateOpts,
     d \in {NilMap, MapSet(NilMap, KeyX, <<"v">>)}}

\* Secrets of the sibling types
SiblingObjects ==
  {[ann |-> MkAnn({t}, {}, r, {}, {}, {}, {}), data |-> d] :
     t \in {TypeSSHKeypair, TypeBasicAuth}, r \in {{}, {YES}},
     d \in {NilMap, MapSet(NilMap, PayloadField, <<"v">>)}}

InitObjects == CoreObjects \cup ValueObjects \cup SiblingObjects

Configs ==
  [regenerateInsecure : BOOLEAN, secretLength : {2}, secretEncoding : {"base64"}]

Init ==
  /\ cfg \in Configs
  /\ store \in [{"A"} -> {[exists |-> FALSE, obj |-> NoObject]}
                         \cup {[exists |-> TRUE, obj |-> o] : o \in InitObjects}]
  /\ pass = [w \in {1} |-> IdlePass]
  /\ started = 0
  /\ enc = NoCall

Next ==
  \/ \E w \in Workers, n \in Names, getFails \in BOOLEAN : Fetch(w, n, getFails)
  \/ \E w \in Workers : ResolveType(w)
  \/ \E w \in Workers : Generate(w)
  \/ \E w \in Workers, updateFails \in BOOLEAN : Persist(w, updateFails)
  \/ \E w \in Workers : Finish(w)

Spec == Init /\ [][Next]_vars

----------------------------------------------------------------------------
(* The random value encoder on its own: GenerateRandomString is called     *)
(* with every length, encoding, byte-length flag and outcome of rand.Read. *)

Encodings == {"base64", "base64url", "base32", "hex", "raw", ""}

Encode(length, encoding, lenBytes, seed) ==
  /\ \E g \in {GenerateRandomString(length, encoding, lenBytes, seed)} :
       enc' = [called |-> TRUE, length |-> length, encoding |-> encoding,
               lenBytes |-> lenBytes, seed |-> seed,
               val |-> g.val, err |-> g.err]
  /\ UNCHANGED <<store, pass, cfg, started>>

InitEnc ==
  /\ cfg \in {c \in Configs : ~c.regenerateInsecure}
  /\ store = <<>>
  /\ pass = <<>>
  /\ started = 0
  /\ enc = NoCall

NextEnc ==
  \E length \in 0..MaxLen, encoding \in Encodings, lenBytes \in BOOLEAN,
     seed \in 0..NumSeeds : Encode(length, encoding, lenBytes, seed)

SpecEnc == InitEnc /\ [][NextEnc]_vars

----------------------------------------------------------------------------
(* Repeated reconciliation of one Secret without failures: Get and Update  *)
(* succeed and rand.Read delivers; nothing but the passes writes the store.*)

NextConv ==
  \/ \E w \in Workers, n \in Names : Fetch(w, n, FALSE)
  \/ \E w \in Workers : ResolveType(w)
  \/ \E w \in Workers : Generate(w) /\ pass'[w].err # "EntropyError"
  \/ \E w \in Workers : Persist(w, FALSE)
  \/ \E w \in Workers : Finish(w)

SpecConv == Init /\ [][NextConv]_vars

----------------------------------------------------------------------------
(* Two workers and two Secrets: the framework may run passes side by side, *)
(* for the same Secret or for different ones, in any interleaving.         *)

ConcObjects ==
  {[ann |-> MkAnn({TypeString}, {<<"x">>}, {}, {}, {}, {}, {}),
    data |-> NilMap],
   [ann |-> MkAnn({TypeString}, {<<"x">>}, {YES}, {}, {}, {}, {}),
    data |-> MapSet(NilMap, KeyX, <<"v">>)],
   [ann |-> MkAnn({}, {<<"x">>}, {}, {"yes"}, {}, {}, {}),
    data |-> MapSet(NilMap, KeyX, <<"v">>)]}

\* the second Secret needs a value or has one
OtherObjects == {o \in ConcObjects : AnnotationSecretRegenerate \notin DOMAIN o.ann.m}

InitConc ==
  /\ cfg \in Configs
  /\ store \in {[n \in {"A", "B"} |->
                   [exists |-> TRUE, obj |-> IF n = "A" THEN a ELSE b]] :
                 a \in ConcObjects, b \in OtherObjects}
  /\ pass = [w \in {1, 2} |-> IdlePass]
  /\ started = 0
  /\ enc = NoCall

SpecConc == InitConc /\ [][Next]_vars

----------------------------------------------------------------------------
(* Vocabulary of the properties *)

\* the declared fields of a Secret: the names of its autogenerate list
DeclaredList(obj) ==
  Split(IF Has(obj.ann, AnnotationSecretAutoGenerate)
        THEN obj.ann.m[AnnotationSecretAutoGenerate]
        ELSE <<>>)

Declared(obj) == {DeclaredList(obj)[i] : i \in 1..Len(DeclaredList(obj))}

HasDuplicate(seq) == \E i, j \in 1..Len(seq) : i < j /\ seq[i] = seq[j]

\* the insecure-regeneration policy applies to the Secret
PolicyApplies(obj) ==
  cfg.regenerateInsecure /\ AnnotationSecretSecure \notin DOMAIN obj.ann.m

\* the regenerate-request annotation of the Secret selects field k
Requested(obj, k) ==
  /\ AnnotationSecretRegenerate \in DOMAIN obj.ann.m
  /\ \/ obj.ann.m[AnnotationSecretRegenerate] = YES
     \/ \E i \in 1..Len(Split(obj.ann.m[AnnotationSecretRegenerate])) :
          Split(obj.ann.m[AnnotationSecretRegenerate])[i] = k

Populated(obj, k) == k \in DOMAIN obj.data.m /\ obj.data.m[k] # <<>>

\* the pass of worker w was handled by the String generator
StringPass(w) == pass[w].generator = TypeString

\* generateData of the String generator returned without error
Generated(w) ==
  /\ StringPass(w)
  /\ \/ pass[w].pc = "diffing"
     \/ pass[w].pc = "returned" /\ pass[w].err \in {"", "UpdateError"}

\* the pass completed without error
Succeeded(w) == pass[w].pc = "returned" /\ pass[w].err = ""

\* the Secret as persisted under the name of the pass
Persisted(w) == store[pass[w].name].obj

----------------------------------------------------------------------------
(* C1: a pass calls Update exactly when generation returned without error  *)
(* and the desired copy differs from the fetched snapshot in annotations   *)
(* or data (a nil map differing from an empty one); every other pass ends  *)
(* with zero Update calls.                                                  *)

C1_UpdateIffChanged ==
  [][\A w \in Workers :
       (pass[w].pc # "returned" /\ pass'[w].pc = "returned") =>
         /\ pass'[w].updateCalls \in {0, 1}
         /\ pass'[w].updateCalls = 1 <=>
              /\ pass[w].pc = "diffing"
              /\ \/ pass[w].instance.ann # pass[w].desired.ann
                 \/ pass[w].instance.data # pass[w].desired.data]_vars

\* a pass whose generation changed the data only, and which called Update
C1_Witness ==
  \E w \in Workers :
    /\ pass[w].pc = "returned" /\ pass[w].updateCalls = 1
    /\ pass[w].instance.data # pass[w].desired.data
    /\ \A k \in DOMAIN pass[w].instance.ann.m :
         pass[w].desired.ann.m[k] = pass[w].instance.ann.m[k]
    /\ DOMAIN pass[w].desired.ann.m =
         DOMAIN pass[w].instance.ann.m \cup {AnnotationSecretAutoGeneratedAt}

----------------------------------------------------------------------------
(* C2: a declared field that has non-empty content and is not in the       *)
(* regeneration set (the insecure policy does not apply, and no            *)
(* regenerate-request selects it) keeps its value byte for byte, in the    *)
(* desired copy and in the persisted Secret.                               *)

C2_PopulatedFieldsKept ==
  \A w \in Workers :
    (pass[w].pc \in {"generating", "diffing", "returned"}
       /\ pass[w].generator \in {"", TypeString}) =>
      \A k \in Declared(pass[w].instance) :
        (/\ Populated(pass[w].instance, k)
         /\ ~PolicyApplies(pass[w].instance)
         /\ ~Requested(pass[w].instance, k)) =>
          /\ Populated(pass[w].desired, k)
          /\ pass[w].desired.data.m[k] = pass[w].instance.data.m[k]
          /\ k \notin pass[w].written
          /\ Populated(Persisted(w), k)
          /\ Persisted(w).data.m[k] = pass[w].instance.data.m[k]

\* list "x,y", x populated and y not: y was generated, x kept, and persisted
C2_Witness ==
  \E w \in Workers :
    /\ Succeeded(w) /\ StringPass(w) /\ pass[w].updateCalls = 1
    /\ DeclaredList(pass[w].instance) = <<KeyX, KeyY>>
    /\ Populated(pass[w].instance, KeyX)
    /\ ~PolicyApplies(pass[w].instance)
    /\ AnnotationSecretRegenerate \notin DOMAIN pass[w].instance.ann.m
    /\ pass[w].written = {KeyY}
    /\ Persisted(w).data.m[KeyX] = <<"v">>

----------------------------------------------------------------------------
(* C3: when generateData has returned and every declared field of its      *)
(* result is populated and nothing marks the result for regeneration, a    *)
(* second generateData on that result, whatever the random source does,    *)
(* returns no error and changes neither data nor annotations.              *)

Settled(obj) ==
  /\ \A k \in Declared(obj) : Populated(obj, k)
  /\ AnnotationSecretRegenerate \notin DOMAIN obj.ann.m
  /\ ~PolicyApplies(obj)

C3_SecondRunChangesNothing ==
  \A w \in Workers :
    (Generated(w) /\ pass[w].pc = "diffing" /\ Settled(pass[w].desired)) =>
      \A rnd \in [1..Len(DeclaredList(pass[w].desired)) -> 0..NumSeeds] :
        /\ StringGenerator_generateData(pass[w].desired, rnd).err = ""
        /\ StringGenerator_generateData(pass[w].desired, rnd).inst = pass[w].desired
        /\ StringGenerator_generateData(pass[w].desired, rnd).written = {}

\* the first run generated both fields of "x,y"; its result is settled
C3_Witness ==
  \E w \in Workers :
    /\ Generated(w) /\ pass[w].pc = "diffing" /\ Settled(pass[w].desired)
    /\ pass[w].written = {KeyX, KeyY}

----------------------------------------------------------------------------
(* C4 as stated: every String pass that starts with the regenerate-request *)
(* annotation "yes" and completes without error regenerates every declared *)
(* field and persists a Secret without the annotation, whatever the policy *)
(* and the secure marker are.                                              *)

RegenerateAll(obj) ==
  /\ AnnotationSecretRegenerate \in DOMAIN obj.ann.m
  /\ obj.ann.m[AnnotationSecretRegenerate] = YES

C4_AsStated ==
  \A w \in Workers :
    (StringPass(w) /\ Succeeded(w) /\ RegenerateAll(pass[w].instance)) =>
      /\ pass[w].written = Declared(pass[w].instance)
      /\ pass[w].updateCalls = 1
      /\ AnnotationSecretRegenerate \notin DOMAIN pass[w].sent.ann.m

(* C4 amended: such a pass regenerates every declared field and calls      *)
(* Update; the persisted Secret is without the annotation when the         *)
(* insecure policy does not apply to the Secret (policy off, or secure     *)
(* marker present), and still carries it, unconsumed, when the policy      *)
(* applies.                                                                *)

C4_RegenerateAll ==
  \A w \in Workers :
    (StringPass(w) /\ Succeeded(w) /\ RegenerateAll(pass[w].instance)) =>
      /\ pass[w].written = Declared(pass[w].instance)
      /\ pass[w].updateCalls = 1
      /\ ~PolicyApplies(pass[w].instance) =>
           /\ AnnotationSecretRegenerate \notin DOMAIN pass[w].sent.ann.m
           /\ AnnotationSecretRegenerate \notin DOMAIN Persisted(w).ann.m
      /\ PolicyApplies(pass[w].instance) => RegenerateAll(Persisted(w))

\* "yes" on a Secret with both fields populated, policy not applying
C4_Witness ==
  \E w \in Workers :
    /\ StringPass(w) /\ Succeeded(w) /\ RegenerateAll(pass[w].instance)
    /\ ~PolicyApplies(pass[w].instance)
    /\ Populated(pass[w].instance, KeyX) /\ Populated(pass[w].instance, KeyY)
    /\ pass[w].written = {KeyX, KeyY}
    /\ AnnotationSecretRegenerate \notin DOMAIN Persisted(w).ann.m

----------------------------------------------------------------------------
(* C5: with the insecure-regeneration policy on and no secure marker at    *)
(* the start of a String pass, every declared field is regenerated, and    *)
(* after the successful pass the persisted Secret carries the secure       *)
(* marker, so the policy no longer applies to it.                          *)

C5_InsecureRegeneratesAll ==
  \A w \in Workers :
    (Generated(w) /\ PolicyApplies(pass[w].instance)) =>
      /\ pass[w].written = Declared(pass[w].instance)
      /\ AnnotationSecretSecure \in DOMAIN pass[w].desired.ann.m
      /\ Succeeded(w) =>
           /\ pass[w].updateCalls = 1
           /\ AnnotationSecretSecure \in DOMAIN Persisted(w).ann.m
           /\ ~PolicyApplies(Persisted(w))

\* both fields were populated and both were written again
C5_Witness ==
  \E w \in Workers :
    /\ Generated(w) /\ Succeeded(w) /\ PolicyApplies(pass[w].instance)
    /\ Populated(pass[w].instance, KeyX) /\ Populated(pass[w].instance, KeyY)
    /\ pass[w].written = {KeyX, KeyY}
    /\ ~PolicyApplies(Persisted(w))

----------------------------------------------------------------------------
(* C6: with a duplicate name in the autogenerate list, generateData        *)
(* returns the validation error, generates no field, leaves the Secret it  *)
(* was given as it was (a regenerate-request annotation included), and the *)
(* pass makes no Update call.                                              *)

C6_DuplicateRejected ==
  \A w \in Workers :
    (StringPass(w) /\ HasDuplicate(DeclaredList(pass[w].genIn))) =>
      /\ pass[w].pc = "returned"
      /\ pass[w].err = "DuplicateElement"
      /\ pass[w].desired = pass[w].genIn
      /\ pass[w].written = {}
      /\ pass[w].generatedCount = 0
      /\ pass[w].updateCalls = 0
      /\ Persisted(w) = pass[w].instance

\* list "x,x" on a Secret that asks for regeneration
C6_Witness ==
  \E w \in Workers :
    /\ StringPass(w) /\ pass[w].pc = "returned"
    /\ DeclaredList(pass[w].genIn) = <<KeyX, KeyX>>
    /\ AnnotationSecretRegenerate \in DOMAIN pass[w].genIn.ann.m
    /\ AnnotationSecretRegenerate \in DOMAIN pass[w].desired.ann.m

----------------------------------------------------------------------------
(* C7: a pass on a fetched Secret with no type annotation and no           *)
(* autogenerate annotation returns success with no requeue, makes no       *)
(* Update call and leaves data and annotations as they were.               *)

NoOp(w) ==
  /\ pass[w].pc = "returned"
  /\ pass[w].err = ""
  /\ pass[w].res = [Requeue |-> FALSE, RequeueAfter |-> 0]
  /\ pass[w].generator = ""
  /\ pass[w].written = {}
  /\ pass[w].updateCalls = 0
  /\ pass[w].desired = pass[w].instance
  /\ Persisted(w) = pass[w].instance

Resolved(w) == pass[w].fetched /\ pass[w].pc # "resolving"

C7_UnannotatedIgnored ==
  \A w \in Workers :
    (/\ Resolved(w)
     /\ AnnotationSecretType \notin DOMAIN pass[w].instance.ann.m
     /\ AnnotationSecretAutoGenerate \notin DOMAIN pass[w].instance.ann.m) =>
      NoOp(w)

\* a Secret with data and a regenerate-request, but neither annotation
C7_Witness ==
  \E w \in Workers :
    /\ Resolved(w) /\ NoOp(w)
    /\ AnnotationSecretType \notin DOMAIN pass[w].instance.ann.m
    /\ AnnotationSecretAutoGenerate \notin DOMAIN pass[w].instance.ann.m
    /\ AnnotationSecretRegenerate \in DOMAIN pass[w].instance.ann.m
    /\ Populated(pass[w].instance, KeyX)

----------------------------------------------------------------------------
(* C8: a pass on a fetched Secret whose type annotation is invalid         *)
(* (absent, empty, or any value other than the three types) and that has   *)
(* no autogenerate annotation is a no-op.                                  *)

InvalidType(obj) ==
  \/ AnnotationSecretType \notin DOMAIN obj.ann.m
  \/ obj.ann.m[AnnotationSecretType] \notin
       {TypeString, TypeSSHKeypair, TypeBasicAuth}

C8_InvalidTypeIgnored ==
  \A w \in Workers :
    (/\ Resolved(w)
     /\ InvalidType(pass[w].instance)
     /\ AnnotationSecretAutoGenerate \notin DOMAIN pass[w].instance.ann.m) =>
      NoOp(w)

----------------------------------------------------------------------------
(* C9: a pass on a fetched Secret with an invalid or absent type and an    *)
(* autogenerate annotation is handled by the String generator, and when it *)
(* completes without error the persisted Secret has the type annotation    *)
(* set to the String type.                                                 *)

C9_DefaultsToString ==
  \A w \in Workers :
    (/\ Resolved(w)
     /\ InvalidType(pass[w].instance)
     /\ AnnotationSecretAutoGenerate \in DOMAIN pass[w].instance.ann.m) =>
      /\ pass[w].sType = TypeString
      /\ pass[w].pc \in {"diffing", "returned"} => StringPass(w)
      /\ Succeeded(w) =>
           /\ pass[w].updateCalls = 1
           /\ AnnotationSecretType \in DOMAIN pass[w].sent.ann.m
           /\ pass[w].sent.ann.m[AnnotationSecretType] = TypeString
           /\ AnnotationSecretType \in DOMAIN Persisted(w).ann.m
           /\ Persisted(w).ann.m[AnnotationSecretType] = TypeString

\* type "foo", every declared field populated: the type is all that changes
C9_Witness ==
  \E w \in Workers :
    /\ Resolved(w) /\ Succeeded(w) /\ StringPass(w)
    /\ AnnotationSecretType \in DOMAIN pass[w].instance.ann.m
    /\ pass[w].instance.ann.m[AnnotationSecretType] = "foo"
    /\ AnnotationSecretAutoGenerate \in DOMAIN pass[w].instance.ann.m
    /\ pass[w].written = {}
    /\ Persisted(w).ann.m[AnnotationSecretType] = TypeString

----------------------------------------------------------------------------
(* C10: a String pass adds the secure marker exactly when every declared   *)
(* field was generated in that pass (the count of generated fields is the  *)
(* number of declared fields); a pass in which a declared field kept its   *)
(* value does not add it; and no pass removes a marker that is present.    *)

MarkerAdded(w) ==
  /\ AnnotationSecretSecure \notin DOMAIN pass[w].instance.ann.m
  /\ AnnotationSecretSecure \in DOMAIN pass[w].desired.ann.m

C10_SecureMarker ==
  \A w \in Workers :
    /\ StringPass(w) =>
         /\ MarkerAdded(w) <=>
              /\ AnnotationSecretSecure \notin DOMAIN pass[w].instance.ann.m
              /\ pass[w].written = Declared(pass[w].instance)
         /\ Generated(w) =>
              (pass[w].generatedCount = Len(DeclaredList(pass[w].instance))
                 <=> pass[w].written = Declared(pass[w].instance))
         /\ MarkerAdded(w) => pass[w].desired.ann.m[AnnotationSecretSecure] = "yes"
    /\ pass[w].fetched /\ AnnotationSecretSecure \in DOMAIN pass[w].instance.ann.m =>
         /\ AnnotationSecretSecure \in DOMAIN pass[w].desired.ann.m
         /\ AnnotationSecretSecure \in DOMAIN Persisted(w).ann.m

\* x kept its value, y was generated: no marker was added
C10_Witness ==
  \E w \in Workers :
    /\ Generated(w) /\ pass[w].pc = "returned"
    /\ AnnotationSecretSecure \notin DOMAIN pass[w].instance.ann.m
    /\ DeclaredList(pass[w].instance) = <<KeyX, KeyY>>
    /\ pass[w].written = {KeyY}
    /\ pass[w].generatedCount = 1
    /\ AnnotationSecretSecure \notin DOMAIN Persisted(w).ann.m

----------------------------------------------------------------------------
(* C11: when Get reports not-found the pass ends with no error, no requeue *)
(* directive, no generation and no Update call; when Get fails otherwise   *)
(* the pass returns that error with no Update call and with neither the    *)
(* requeue flag nor a delay set.                                           *)

C11_GetFailures ==
  \A w \in Workers :
    /\ (pass[w].pc # "idle" /\ ~pass[w].fetched) =>
         /\ pass[w].pc = "returned"
         /\ pass[w].err = "GetError" \/ (pass[w].err = "" /\ ~store[pass[w].name].exists)
         /\ pass[w].res = [Requeue |-> FALSE, RequeueAfter |-> 0]
         /\ pass[w].generator = "" /\ pass[w].written = {}
         /\ pass[w].updateCalls = 0
         /\ pass[w].desired = NoObject
    /\ (pass[w].pc # "idle" /\ ~store[pass[w].name].exists) =>
         (~pass[w].fetched /\ pass[w].err \in {"", "GetError"})

\* Get failed on a Secret that is there and asks for generation
C11_Witness ==
  \E w \in Workers :
    /\ pass[w].pc = "returned" /\ ~pass[w].fetched /\ pass[w].err = "GetError"
    /\ store[pass[w].name].exists
    /\ AnnotationSecretAutoGenerate \in DOMAIN Persisted(w).ann.m

----------------------------------------------------------------------------
(* C12: when the generation of a declared field fails, the pass stops at   *)
(* that field and returns the error with a retry delay of 30; the fields   *)
(* generated before it stay in the desired copy, those after it are not    *)
(* touched, and with no Update call the persisted Secret is what it was.   *)

GenerationFailed(w) ==
  StringPass(w) /\ pass[w].pc = "returned" /\ pass[w].err = "EntropyError"

SameAt(a, b, k) ==
  /\ (k \in DOMAIN a.data.m) = (k \in DOMAIN b.data.m)
  /\ k \in DOMAIN a.data.m => a.data.m[k] = b.data.m[k]

C12_FailureKeepsProgressUnpersisted ==
  \A w \in Workers :
    GenerationFailed(w) =>
      /\ pass[w].res = [Requeue |-> FALSE, RequeueAfter |-> 30]
      /\ pass[w].updateCalls = 0
      /\ Persisted(w) = pass[w].instance
      /\ pass[w].generatedCount = Cardinality(pass[w].written) + 1
      /\ \A k \in pass[w].written :
           k \in DOMAIN pass[w].desired.data.m /\ k \in Declared(pass[w].instance)
      /\ \E i \in 1..Len(DeclaredList(pass[w].instance)) :
           /\ DeclaredList(pass[w].instance)[i] \notin pass[w].written
           /\ \A j \in i..Len(DeclaredList(pass[w].instance)) :
                /\ DeclaredList(pass[w].instance)[j] \notin pass[w].written
                /\ SameAt(pass[w].desired, pass[w].instance,
                          DeclaredList(pass[w].instance)[j])
           /\ \A j \in 1..(i - 1) :
                \/ DeclaredList(pass[w].instance)[j] \in pass[w].written
                \/ SameAt(pass[w].desired, pass[w].instance,
                          DeclaredList(pass[w].instance)[j])
      /\ AnnotationSecretSecure \in DOMAIN pass[w].desired.ann.m =>
           AnnotationSecretSecure \in DOMAIN pass[w].instance.ann.m

\* x was generated and is in the desired copy, y failed, nothing persisted
C12_Witness ==
  \E w \in Workers :
    /\ GenerationFailed(w)
    /\ DeclaredList(pass[w].instance) = <<KeyX, KeyY>>
    /\ pass[w].written = {KeyX}
    /\ Populated(pass[w].desired, KeyX)
    /\ ~Populated(Persisted(w), KeyX)

----------------------------------------------------------------------------
(* C13: the Secret handed to Update carries the generated-at timestamp of  *)
(* the current time, stamped in that pass; a pass that does not call       *)
(* Update leaves the timestamp annotation as it found it; a failed Update  *)
(* returns the error with the requeue flag set.                            *)

SameTimestamp(a, b) ==
  /\ (AnnotationSecretAutoGeneratedAt \in DOMAIN a.ann.m)
       = (AnnotationSecretAutoGeneratedAt \in DOMAIN b.ann.m)
  /\ AnnotationSecretAutoGeneratedAt \in DOMAIN a.ann.m =>
       a.ann.m[AnnotationSecretAutoGeneratedAt]
         = b.ann.m[AnnotationSecretAutoGeneratedAt]

C13_TimestampOnUpdate ==
  \A w \in Workers :
    /\ pass[w].updateCalls = 1 =>
         /\ AnnotationSecretAutoGeneratedAt \in DOMAIN pass[w].sent.ann.m
         /\ pass[w].sent.ann.m[AnnotationSecretAutoGeneratedAt]
              = <<"T">> \o Itoa(started)
         /\ pass[w].err = "" => Persisted(w) = pass[w].sent
    /\ (pass[w].fetched /\ pass[w].updateCalls = 0) =>
         /\ SameTimestamp(pass[w].desired, pass[w].instance)
         /\ SameTimestamp(Persisted(w), pass[w].instance)
    /\ pass[w].err = "UpdateError" =>
         /\ pass[w].updateCalls = 1
         /\ pass[w].res.Requeue
         /\ Persisted(w) = pass[w].instance

\* a later pass replaces the timestamp of an earlier one
C13_Witness ==
  \E w \in Workers :
    /\ Succeeded(w) /\ pass[w].updateCalls = 1
    /\ AnnotationSecretAutoGeneratedAt \in DOMAIN pass[w].instance.ann.m
    /\ pass[w].instance.ann.m[AnnotationSecretAutoGeneratedAt]
         # Persisted(w).ann.m[AnnotationSecretAutoGeneratedAt]

----------------------------------------------------------------------------
(* C15: for every length n >= 0 and a rand.Read that succeeds: without the *)
(* byte-length flag and with encoding base64, base64url, base32 or hex     *)
(* (or none), the encoding of n bytes has at least n characters, so the    *)
(* cut is in bounds and the result has exactly n characters; with          *)
(* encoding raw the result has exactly n bytes; with the byte-length flag  *)
(* the result is the whole encoding of n bytes.                            *)

\* number of characters of the encoding of n bytes
FullLen(encoding, n) ==
  IF encoding = "hex" THEN 2 * n
  ELSE IF encoding = "base32" THEN 8 * ((n + 4) \div 5)
  ELSE 4 * ((n + 2) \div 3)

C15_EncodedLength ==
  (enc.called /\ enc.seed # 0) =>
    /\ enc.err = ""
    /\ enc.encoding = "raw" => Len(enc.val) = enc.length
    /\ enc.encoding # "raw" =>
         /\ FullLen(enc.encoding, enc.length) >= enc.length
         /\ ~enc.lenBytes => Len(enc.val) = enc.length
         /\ enc.lenBytes => Len(enc.val) = FullLen(enc.encoding, enc.length)
         /\ \A i \in 1..Len(enc.val) : enc.val[i] \in {RandChars[enc.seed], "="}

\* 7 bytes in base32 with the byte-length flag: 16 characters, none cut
C15_Witness ==
  /\ enc.called /\ enc.seed # 0 /\ enc.lenBytes
  /\ enc.encoding = "base32" /\ enc.length = 7
  /\ Len(enc.val) = 16

----------------------------------------------------------------------------
(* C17: after a String pass that returns success on a Secret with a        *)
(* positive length and a template that contains the placeholder, every     *)
(* field of the autogenerate list is populated in the persisted Secret.    *)

PositiveLength(obj) ==
  /\ ParseByteLength(cfg.secretLength,
                     GetLengthFromAnnotation(cfg.secretLength, obj.ann)).err = ""
  /\ ParseByteLength(cfg.secretLength,
                     GetLengthFromAnnotation(cfg.secretLength, obj.ann)).length > 0

TemplateHasSecret(obj) ==
  \/ AnnotationSecretTemplate \notin DOMAIN obj.ann.m
  \/ \E i \in 1..Len(obj.ann.m[AnnotationSecretTemplate]) :
       obj.ann.m[AnnotationSecretTemplate][i] = "${SECRET}"

C17_FieldsPopulated ==
  \A w \in Workers :
    (/\ StringPass(w) /\ Succeeded(w)
     /\ PositiveLength(pass[w].instance)
     /\ TemplateHasSecret(pass[w].instance)) =>
      \A k \in Declared(pass[w].instance) :
        /\ Populated(pass[w].desired, k)
        /\ Populated(Persisted(w), k)

\* x was present but empty, y missing: both are populated afterwards
C17_Witness ==
  \E w \in Workers :
    /\ StringPass(w) /\ Succeeded(w)
    /\ PositiveLength(pass[w].instance) /\ TemplateHasSecret(pass[w].instance)
    /\ DeclaredList(pass[w].instance) = <<KeyX, KeyY>>
    /\ KeyX \in DOMAIN pass[w].instance.data.m
    /\ ~Populated(pass[w].instance, KeyX)
    /\ Populated(Persisted(w), KeyX) /\ Populated(Persisted(w), KeyY)

----------------------------------------------------------------------------
(* C18: when the regenerate-request names a subset (not "yes") and the     *)
(* insecure policy does not apply, the String pass removes the annotation  *)
(* and regenerates exactly the declared fields that are named or empty;    *)
(* the other declared fields keep their values and a requested name that   *)
(* is not declared is never written.  In every String pass only declared   *)
(* fields are written.                                                     *)

SubsetRequest(obj) ==
  /\ AnnotationSecretRegenerate \in DOMAIN obj.ann.m
  /\ obj.ann.m[AnnotationSecretRegenerate] # <<"y", "e", "s">>
  /\ ~PolicyApplies(obj)

RequestedNames(obj) ==
  {Split(obj.ann.m[AnnotationSecretRegenerate])[i] :
     i \in 1..Len(Split(obj.ann.m[AnnotationSecretRegenerate]))}

C18_SubsetRegenerated ==
  \A w \in Workers :
    /\ (Generated(w) /\ SubsetRequest(pass[w].instance)) =>
         /\ AnnotationSecretRegenerate \notin DOMAIN pass[w].desired.ann.m
         /\ pass[w].written =
              {k \in Declared(pass[w].instance) :
                 k \in RequestedNames(pass[w].instance)
                   \/ ~Populated(pass[w].instance, k)}
         /\ \A k \in Declared(pass[w].instance) \ pass[w].written :
              SameAt(pass[w].desired, pass[w].instance, k)
         /\ \A k \in RequestedNames(pass[w].instance) \ Declared(pass[w].instance) :
              SameAt(pass[w].desired, pass[w].instance, k)
    /\ StringPass(w) =>
         /\ pass[w].written \subseteq Declared(pass[w].instance)
         /\ \A k \in (DOMAIN pass[w].desired.data.m
                        \cup DOMAIN pass[w].instance.data.m)
                     \ Declared(pass[w].instance) :
              SameAt(pass[w].desired, pass[w].instance, k)

\* request "x,z" on list "x,y", both populated: x alone is written, z never
C18_Witness ==
  \E w \in Workers :
    /\ Generated(w) /\ Succeeded(w) /\ SubsetRequest(pass[w].instance)
    /\ DeclaredList(pass[w].instance) = <<KeyX, KeyY>>
    /\ RequestedNames(pass[w].instance) = {KeyX, <<"z">>}
    /\ Populated(pass[w].instance, KeyX) /\ Populated(pass[w].instance, KeyY)
    /\ pass[w].written = {KeyX}
    /\ <<"z">> \notin DOMAIN Persisted(w).data.m
    /\ AnnotationSecretRegenerate \notin DOMAIN Persisted(w).ann.m

----------------------------------------------------------------------------
(* C20: in every pass that gets past type resolution the resolved type is  *)
(* String, SSHKeypair or BasicAuth, a generator is selected, and the pass  *)
(* never returns the SecretTypeNotSpecified error.                         *)

C20_DispatchTotal ==
  \A w \in Workers :
    /\ pass[w].err # "SecretTypeNotSpecified"
    /\ pass[w].pc \in {"generating", "diffing"} =>
         pass[w].sType \in {"string", "ssh-keypair", "basic-auth"}
    /\ pass[w].pc = "diffing" =>
         pass[w].generator \in {"string", "ssh-keypair", "basic-auth"}
    /\ (pass[w].pc = "returned" /\ pass[w].sType # "") =>
         pass[w].generator \in {"string", "ssh-keypair", "basic-auth"}

\* type "foo" with an autogenerate list reached the String generator
C20_Witness ==
  \E w \in Workers :
    /\ pass[w].pc = "diffing" /\ pass[w].generator = "string"
    /\ AnnotationSecretType \in DOMAIN pass[w].instance.ann.m
    /\ pass[w].instance.ann.m[AnnotationSecretType] = "foo"

----------------------------------------------------------------------------
(* C16: convergence.  Without Get, entropy or Update failures the third    *)
(* and every later pass over a managed Secret is a no-op.  As stated, the  *)
(* persisted Secret then carries no regenerate-request annotation; this    *)
(* fails for a Secret whose passes end in a validation error (duplicate    *)
(* field list, unparsable length): such a pass never reaches Update, so    *)
(* the annotation stays.                                                   *)

\* the pass of worker w comes after two completed passes over a managed Secret
LaterPass(w) ==
  /\ started >= 3
  /\ pass[w].pc = "returned"
  /\ pass[w].fetched
  /\ ~NotManaged(pass[w].instance)

C16_AsStated ==
  \A w \in Workers :
    LaterPass(w) =>
      /\ pass[w].updateCalls = 0
      /\ Persisted(w) = pass[w].instance
      /\ AnnotationSecretRegenerate \notin DOMAIN Persisted(w).ann.m

(* C16, amended: the third and every later pass makes no Update and leaves *)
(* the persisted Secret as it was; when it ends without a validation error *)
(* the persisted Secret carries no regenerate-request annotation.          *)
C16_Converges ==
  \A w \in Workers :
    LaterPass(w) =>
      /\ pass[w].updateCalls = 0
      /\ Persisted(w) = pass[w].instance
      /\ pass[w].err = "" =>
           /\ AnnotationSecretRegenerate \notin DOMAIN Persisted(w).ann.m
           /\ DeepEqual(pass[w].desired.ann, pass[w].instance.ann)
           /\ DeepEqual(pass[w].desired.data, pass[w].instance.data)

\* the second pass made the second Update, the third pass had nothing to do
C16_Witness ==
  \E w \in Workers :
    /\ LaterPass(w) /\ Succeeded(w) /\ StringPass(w)
    /\ pass[w].updateCalls = 0
    /\ AnnotationSecretAutoGeneratedAt \in DOMAIN Persisted(w).ann.m
    /\ Persisted(w).ann.m[AnnotationSecretAutoGeneratedAt] = <<"T">> \o Itoa(2)
    /\ \A k \in Declared(Persisted(w)) : Populated(Persisted(w), k)

----------------------------------------------------------------------------
(* C14: redundant passes over one Secret.  As stated: whenever two passes  *)
(* for the same Secret have both persisted, in any interleaving, the last  *)
(* write carries, for every field the other pass generated, the value the  *)
(* other pass persisted.  It fails when both passes fetch the same         *)
(* snapshot: each generates its own values and the later Update replaces   *)
(* the earlier one, nothing in Reconcile comparing against the store.      *)

\* w1 and w2 ran for the same Secret and both had their Update accepted
BothPersisted(w1, w2) ==
  /\ w1 # w2
  /\ pass[w1].name = pass[w2].name
  /\ Succeeded(w1) /\ pass[w1].updateCalls = 1
  /\ Succeeded(w2) /\ pass[w2].updateCalls = 1

C14_AsStated ==
  \A w1 \in Workers, w2 \in Workers :
    (BothPersisted(w1, w2) /\ Persisted(w2) = pass[w2].sent) =>
      \A k \in pass[w1].written :
        SameAt(pass[w2].sent, pass[w1].sent, k)

\* w2 fetched the Secret as w1 had persisted it, free of a regenerate request
FetchedAfter(w1, w2) ==
  /\ w1 # w2
  /\ pass[w1].name = pass[w2].name
  /\ Succeeded(w1) /\ pass[w1].updateCalls = 1
  /\ pass[w2].fetched
  /\ pass[w2].instance = pass[w1].sent
  /\ AnnotationSecretRegenerate \notin DOMAIN pass[w1].sent.ann.m

(* C14, amended: a pass that fetches the Secret after another pass has     *)
(* persisted it, the persisted Secret carrying no regenerate-request       *)
(* annotation, keeps every value the other pass generated and, when it     *)
(* returns success, has made no Update.                                    *)
C14_RedundantPassKeeps ==
  \A w1 \in Workers, w2 \in Workers :
    FetchedAfter(w1, w2) =>
      /\ \A k \in pass[w1].written :
           SameAt(pass[w2].desired, pass[w1].sent, k)
      /\ pass[w2].updateCalls = 0
      /\ Succeeded(w2) => Persisted(w2) = pass[w1].sent

\* w1 generated x and persisted it; w2 then ran to the end without a write
C14_Witness ==
  \E w1 \in Workers, w2 \in Workers :
    /\ FetchedAfter(w1, w2)
    /\ KeyX \in pass[w1].written
    /\ Populated(pass[w1].sent, KeyX)
    /\ Succeeded(w2) /\ StringPass(w2)
    /\ pass[w2].updateCalls = 0
    /\ Persisted(w2) = pass[w1].sent

----------------------------------------------------------------------------
(* C19: passes for different Secrets do not interfere.  A Secret in the    *)
(* store changes only by the Update of a pass fetched under its name, and  *)
(* becomes what that pass sent; the same step changes no other Secret and  *)
(* no other worker's locals.  A pass fetches the Secret of its own name,   *)
(* and its snapshot and its name stay as fetched until it returns.         *)

C19_Step ==
  /\ \A n \in Names :
       store'[n] # store[n] =>
         /\ \E w \in Workers :
              /\ pass[w].name = n
              /\ pass[w].pc = "diffing"
              /\ store'[n].obj = pass'[w].sent
              /\ \A v \in Workers \ {w} : pass'[v] = pass[v]
         /\ \A m \in Names \ {n} : store'[m] = store[m]
  /\ \A w \in Workers :
       /\ (pass[w].pc = "idle" /\ pass'[w].pc = "resolving") =>
            /\ pass'[w].instance = store[pass'[w].name].obj
            /\ pass'[w].desired = pass'[w].instance
       /\ (pass[w].pc \in {"resolving", "generating", "diffing"}) =>
            /\ pass'[w].instance = pass[w].instance
            /\ pass'[w].name = pass[w].name
       /\ pass'[w] # pass[w] => \A v \in Workers \ {w} : pass'[v] = pass[v]

C19_NoInterference == [][C19_Step]_vars

\* both Secrets were written, each by the pass that ran for it
C19_Witness ==
  \E w1 \in Workers, w2 \in Workers :
    /\ pass[w1].name = "A" /\ pass[w2].name = "B"
    /\ Succeeded(w1) /\ pass[w1].updateCalls = 1
    /\ Succeeded(w2) /\ pass[w2].updateCalls = 1
    /\ store["A"].obj = pass[w1].sent
    /\ store["B"].obj = pass[w2].sent
    /\ pass[w1].sent # pass[w2].sent

====
